---- MODULE Spec2Model ----
(***************************************************************************)
(* Model of the Codebreaker code processor (src/src/lib.rs): the scheme    *)
(* dispatcher (encrypt_code_mut, decrypt_code_mut) and the auto-decrypt    *)
(* state machine (auto_decrypt_code_mut, num_code_lines).                  *)
(*                                                                         *)
(* A 32-bit word is the pair <<hi, lo>> of its two 16-bit halves, so that  *)
(* every shift and mask of the source is computed on the real bits.  A     *)
(* code is the pair <<addr, val>> of two words.                            *)
(*                                                                         *)
(* The modules cb1 and cb7 (the two ciphers) are not part of the source    *)
(* at hand.  They are modelled from their interface: cb1 is a stateless    *)
(* bijection on codes, cb7 a bijection on codes for each cipher state,     *)
(* whose state advances with every call and is overwritten by beefcode.    *)
(***************************************************************************)
EXTENDS Integers, Sequences, FiniteSets, TLC

VARIABLES
    scheme,           \* Codebreaker.scheme: "RAW", "V1" or "V7"
    cb7,              \* Codebreaker.cb7: the state of the keyed cipher
    code_lines,       \* Codebreaker.code_lines
    mode,             \* how the engine was constructed: "cold" (new) or "warm" (new_v7)
    overflow_checks,  \* build profile: TRUE when arithmetic overflow panics
    op,               \* the last call: "none", "encrypt", "decrypt", "auto"
    inp,              \* the code passed to the last call
    out,              \* the code the last call returned
    prev,             \* the engine state the last call started from
    counted,          \* the address the last call passed to num_code_lines, or NoWord
    early,            \* TRUE when the last call left by an early return
    err,              \* TRUE when a call has panicked
    only_decrypt,     \* TRUE while every call of the session was decrypt_code_mut
    seen_beef,        \* TRUE when an earlier call's plaintext address was a beefcode
    peer,             \* second engine of the two-engine drivers
    peer_out,         \* the code the peer's last call returned
    pc                \* position of the session driver ("free": any call at any time)

vars == <<scheme, cb7, code_lines, mode, overflow_checks, op, inp, out, prev,
          counted, early, err, only_decrypt, seen_beef, peer,
          peer_out, pc>>

----------------------------------------------------------------------------
(* Bounds *)

\* Calls of the keyed cipher allowed between two reseeds.
MaxPos == 2

----------------------------------------------------------------------------
(* Words *)

W16 == 65536

NoWord == <<0 - 1, 0 - 1>>
NoCode == <<NoWord, NoWord>>

\* 0xBEEFC0DE, 0xBEEFC0DF, 0xFFFFFFFF
BEEFC0DE == <<48879, 49374>>
BEEFC0DF == <<48879, 49375>>
ALLONES == <<65535, 65535>>
ZERO == <<0, 0>>

\* addr >> 28
Cmd(addr) == addr[1] \div 4096

\* (addr >> 24) & 0x0e
EncNibble(addr) == ((addr[1] \div 512) % 8) * 2

\* addr & 0x00400000
Bit22(addr) == ((addr[1] \div 64) % 2) * 64

----------------------------------------------------------------------------
(* cb1: the simple scheme *)

\* The per-command constant the value word is shifted by.
Cb1ValSeed(cmd) == IF cmd > 2 THEN 4096 + (17 * cmd) ELSE 0

cb1_encrypt_code_mut(addr, val) ==
    LET cmd == Cmd(addr)
        hi  == (cmd * 4096) + (((addr[1] % 4096) + 2560 + cmd) % 4096)
        lo  == (addr[2] + 12345 + cmd) % W16
    IN  <<  <<hi, lo>>,
            <<val[1], (val[2] + Cb1ValSeed(cmd)) % W16>>  >>

cb1_decrypt_code_mut(addr, val) ==
    LET cmd == Cmd(addr)
        hi  == (cmd * 4096) + (((addr[1] % 4096) + 4096 - 2560 - cmd) % 4096)
        lo  == (addr[2] + W16 - 12345 - cmd) % W16
    IN  <<  <<hi, lo>>,
            <<val[1], (val[2] + W16 - Cb1ValSeed(cmd)) % W16>>  >>

----------------------------------------------------------------------------
(* cb7: the keyed scheme *)

\* Cb7::new(): no seed, start of the key stream.
Cb7New == [seed |-> <<ZERO, ZERO>>, pos |-> 0]

\* Cb7::beefcode: the state is derived from the activation code alone.
beefcode(st, addr, val) == [seed |-> <<addr, val>>, pos |-> 0]

\* Cb7::default(): seeded as by the canonical activation code BEEFC0DE 00000000.
Cb7Default == beefcode(Cb7New, BEEFC0DE, ZERO)

\* The key stream word the next call of the cipher uses.
Cb7Key(st) ==
    1 + ((st.seed[1][1] + (3 * st.seed[1][2]) + (5 * st.seed[2][1])
            + (7 * st.seed[2][2]) + (11 * st.pos)) % 4093)

cb7_encrypt_code_mut(st, addr, val) ==
    LET k == Cb7Key(st)
    IN  [cb7  |-> [st EXCEPT !.pos = @ + 1],
         code |-> <<  <<(addr[1] + (4369 * k)) % W16, (addr[2] + k) % W16>>,
                      <<(val[1] + k) % W16, (val[2] + (257 * k)) % W16>>  >>]

cb7_decrypt_code_mut(st, addr, val) ==
    LET k == Cb7Key(st)
    IN  [cb7  |-> [st EXCEPT !.pos = @ + 1],
         code |-> <<  <<(addr[1] + (W16 * 4369) - (4369 * k)) % W16,
                        (addr[2] + W16 - k) % W16>>,
                      <<(val[1] + W16 - k) % W16,
                        (val[2] + (W16 * 257) - (257 * k)) % W16>>  >>]

\* cb7::is_beefcode: addr & 0xfffffffe == 0xbeefc0de
is_beefcode(addr) == addr[1] = 48879 /\ addr[2] - (addr[2] % 2) = 49374

----------------------------------------------------------------------------
(* Codebreaker *)

\* Variant of new_v7: the keyed cipher left unseeded.
new_v7_unseeded == [scheme |-> "V7", cb7 |-> Cb7New, code_lines |-> 0]

\* Codebreaker::new(), Codebreaker::new_v7()
new == [scheme |-> "RAW", cb7 |-> Cb7New, code_lines |-> 0]

new_v7 == [scheme |-> "V7", cb7 |-> Cb7Default, code_lines |-> 0]

Fresh(m) == IF m = "cold" THEN new ELSE new_v7

\* Variant of num_code_lines: the number of lines that follow the first one.
num_code_lines_extra(addr) ==
    LET cmd == Cmd(addr)
    IN  IF cmd < 3 \/ cmd > 6 THEN 0
        ELSE IF cmd = 3 THEN (IF Bit22(addr) # 0 THEN 1 ELSE 0)
        ELSE 1

\* Variant of num_code_lines: command 6 taken for a one-line command.
num_code_lines_ge6(addr) ==
    LET cmd == Cmd(addr)
    IN  IF cmd < 3 \/ cmd >= 6 THEN 1
        ELSE IF cmd = 3 THEN (IF Bit22(addr) # 0 THEN 2 ELSE 1)
        ELSE 2

\* fn num_code_lines(addr: u32) -> usize
num_code_lines(addr) ==
    LET cmd == Cmd(addr)
    IN  IF cmd < 3 \/ cmd > 6 THEN 1
        ELSE IF cmd = 3 THEN (IF Bit22(addr) # 0 THEN 2 ELSE 1)
        ELSE 2

\* `code_lines -= 1` on a usize.  At 0 the subtraction overflows: a build
\* with overflow checks panics, a build without wraps to usize::MAX, which
\* is written -1 here (usize arithmetic is modulo 2^64).
Sub1(n) == [v |-> n - 1, panic |-> (n = 0 /\ overflow_checks)]

\* What a call leaves behind: the engine fields, the code, and how it ended.
Ret(s, c, lines, code, cnt, ear) ==
    [scheme |-> s, cb7 |-> c, code_lines |-> lines.v, code |-> code,
     panic |-> lines.panic, counted |-> cnt, early |-> ear]

Lines(n) == [v |-> n, panic |-> FALSE]

\* Variant of encrypt_code_mut: the scheme is switched before the line is
\* transformed, so the activation line is encrypted with the keyed cipher.
encrypt_code_mut_switch_first(e, addr, val) ==
    LET c0 == IF is_beefcode(addr) THEN beefcode(e.cb7, addr, val) ELSE e.cb7
        s0 == IF is_beefcode(addr) THEN "V7" ELSE e.scheme
        r  == IF s0 = "V7"
              THEN cb7_encrypt_code_mut(c0, addr, val)
              ELSE [cb7 |-> c0, code |-> cb1_encrypt_code_mut(addr, val)]
    IN  Ret(s0, r.cb7, Lines(e.code_lines), r.code, NoWord, FALSE)

\* Variant of encrypt_code_mut: the beefcode test reads the address after
\* the transform, as decrypt_code_mut does.
encrypt_code_mut_post(e, addr, val) ==
    LET r == IF e.scheme = "V7"
             THEN cb7_encrypt_code_mut(e.cb7, addr, val)
             ELSE [cb7 |-> e.cb7, code |-> cb1_encrypt_code_mut(addr, val)]
    IN  IF is_beefcode(r.code[1])
        THEN Ret("V7", beefcode(r.cb7, r.code[1], r.code[2]),
                 Lines(e.code_lines), r.code, NoWord, FALSE)
        ELSE Ret(e.scheme, r.cb7, Lines(e.code_lines), r.code, NoWord, FALSE)

\* pub fn encrypt_code_mut(&mut self, addr: &mut u32, val: &mut u32)
encrypt_code_mut(e, addr, val) ==
    LET r == IF e.scheme = "V7"
             THEN cb7_encrypt_code_mut(e.cb7, addr, val)
             ELSE [cb7 |-> e.cb7, code |-> cb1_encrypt_code_mut(addr, val)]
    IN  IF is_beefcode(addr)
        THEN Ret("V7", beefcode(r.cb7, addr, val), Lines(e.code_lines),
                 r.code, NoWord, FALSE)
        ELSE Ret(e.scheme, r.cb7, Lines(e.code_lines), r.code, NoWord, FALSE)

\* Variant of decrypt_code_mut: the beefcode test reads the address as it
\* was passed in, as encrypt_code_mut does.
decrypt_code_mut_pre(e, addr, val) ==
    LET r == IF e.scheme = "V7"
             THEN cb7_decrypt_code_mut(e.cb7, addr, val)
             ELSE [cb7 |-> e.cb7, code |-> cb1_decrypt_code_mut(addr, val)]
    IN  IF is_beefcode(addr)
        THEN Ret("V7", beefcode(r.cb7, addr, val),
                 Lines(e.code_lines), r.code, NoWord, FALSE)
        ELSE Ret(e.scheme, r.cb7, Lines(e.code_lines), r.code, NoWord, FALSE)

\* Variant of decrypt_code_mut: the simple scheme applied forwards.
decrypt_code_mut_forward(e, addr, val) ==
    LET r == IF e.scheme = "V7"
             THEN cb7_decrypt_code_mut(e.cb7, addr, val)
             ELSE [cb7 |-> e.cb7, code |-> cb1_encrypt_code_mut(addr, val)]
    IN  IF is_beefcode(r.code[1])
        THEN Ret("V7", beefcode(r.cb7, r.code[1], r.code[2]),
                 Lines(e.code_lines), r.code, NoWord, FALSE)
        ELSE Ret(e.scheme, r.cb7, Lines(e.code_lines), r.code, NoWord, FALSE)

\* Variant of decrypt_code_mut: a beefcode sets code_lines to 1, as the
\* tail of auto_decrypt_code_mut does.
decrypt_code_mut_tail(e, addr, val) ==
    LET r == IF e.scheme = "V7"
             THEN cb7_decrypt_code_mut(e.cb7, addr, val)
             ELSE [cb7 |-> e.cb7, code |-> cb1_decrypt_code_mut(addr, val)]
    IN  IF is_beefcode(r.code[1])
        THEN Ret("V7", beefcode(r.cb7, r.code[1], r.code[2]),
                 Lines(1), r.code, NoWord, FALSE)
        ELSE Ret(e.scheme, r.cb7, Lines(e.code_lines), r.code, NoWord, FALSE)

\* pub fn decrypt_code_mut(&mut self, addr: &mut u32, val: &mut u32)
decrypt_code_mut(e, addr, val) ==
    LET r == IF e.scheme = "V7"
             THEN cb7_decrypt_code_mut(e.cb7, addr, val)
             ELSE [cb7 |-> e.cb7, code |-> cb1_decrypt_code_mut(addr, val)]
    IN  IF is_beefcode(r.code[1])
        THEN Ret("V7", beefcode(r.cb7, r.code[1], r.code[2]),
                 Lines(e.code_lines), r.code, NoWord, FALSE)
        ELSE Ret(e.scheme, r.cb7, Lines(e.code_lines), r.code, NoWord, FALSE)

\* Variant of AutoTail: the scheme is switched, the cipher is not reseeded.
AutoTail_noseed(s, c, lines, code, cnt) ==
    IF is_beefcode(code[1]) /\ ~lines.panic
    THEN Ret("V7", c, Lines(1), code, cnt, FALSE)
    ELSE Ret(s, c, lines, code, cnt, FALSE)

\* Variant of AutoTail: code_lines is left as the line count made it.
AutoTail_keep(s, c, lines, code, cnt) ==
    IF is_beefcode(code[1]) /\ ~lines.panic
    THEN Ret("V7", beefcode(c, code[1], code[2]), lines, code, cnt, FALSE)
    ELSE Ret(s, c, lines, code, cnt, FALSE)

\* The common tail of auto_decrypt_code_mut: a beefcode reseeds the cipher,
\* switches to V7 and sets code_lines to 1.  A panicked call never gets here.
AutoTail(s, c, lines, code, cnt) ==
    IF is_beefcode(code[1]) /\ ~lines.panic
    THEN Ret("V7", beefcode(c, code[1], code[2]), Lines(1), code, cnt, FALSE)
    ELSE Ret(s, c, lines, code, cnt, FALSE)

\* Variant of AutoHeader: the lines of an encrypted code are counted on
\* the decrypted address.
AutoHeader_late(e, addr, val) ==
    IF EncNibble(addr) # 0
    THEN IF is_beefcode(addr)
         THEN Ret(e.scheme, e.cb7, Sub1(num_code_lines(addr)), <<addr, val>>,
                  addr, TRUE)
         ELSE LET d == cb1_decrypt_code_mut(addr, val)
              IN  AutoTail("V1", e.cb7, Sub1(num_code_lines(d[1])), d, d[1])
    ELSE AutoTail("RAW", e.cb7, Sub1(num_code_lines(addr)), <<addr, val>>, addr)

\* Variant of AutoHeader: an unencrypted beefcode is not ignored but
\* handled as any line that looks encrypted.
AutoHeader_noignore(e, addr, val) ==
    LET n == num_code_lines(addr)
    IN  IF EncNibble(addr) # 0
        THEN AutoTail("V1", e.cb7, Sub1(n),
                      cb1_decrypt_code_mut(addr, val), addr)
        ELSE AutoTail("RAW", e.cb7, Sub1(n), <<addr, val>>, addr)

\* Variant of AutoHeader: an unencrypted beefcode reseeds the cipher
\* before it is ignored.
AutoHeader_reseed_raw(e, addr, val) ==
    LET n == num_code_lines(addr)
    IN  IF EncNibble(addr) # 0
        THEN IF is_beefcode(addr)
             THEN Ret(e.scheme, beefcode(e.cb7, addr, val), Sub1(n),
                      <<addr, val>>, addr, TRUE)
             ELSE AutoTail("V1", e.cb7, Sub1(n),
                           cb1_decrypt_code_mut(addr, val), addr)
        ELSE AutoTail("RAW", e.cb7, Sub1(n), <<addr, val>>, addr)

\* auto_decrypt_code_mut, scheme != V7 and code_lines == 0: the first line
\* of a code tells the number of lines and whether the code is encrypted.
AutoHeader(e, addr, val) ==
    LET n == num_code_lines(addr)
    IN  IF EncNibble(addr) # 0
        THEN IF is_beefcode(addr)
             THEN Ret(e.scheme, e.cb7, Sub1(n), <<addr, val>>, addr, TRUE)
             ELSE AutoTail("V1", e.cb7, Sub1(n),
                           cb1_decrypt_code_mut(addr, val), addr)
        ELSE AutoTail("RAW", e.cb7, Sub1(n), <<addr, val>>, addr)

\* Variant of AutoContinue: the scheme is inferred on every line.
AutoContinue_infer(e, addr, val) ==
    IF EncNibble(addr) = 0
    THEN Ret("RAW", e.cb7, Sub1(e.code_lines), <<addr, val>>, NoWord, TRUE)
    ELSE AutoTail("V1", e.cb7, Sub1(e.code_lines),
                  cb1_decrypt_code_mut(addr, val), NoWord)

\* Variant of AutoContinue: a further line of a raw code does not return
\* early and reaches the common tail.
AutoContinue_tail(e, addr, val) ==
    IF e.scheme = "RAW"
    THEN AutoTail(e.scheme, e.cb7, Sub1(e.code_lines), <<addr, val>>, NoWord)
    ELSE AutoTail(e.scheme, e.cb7, Sub1(e.code_lines),
                  cb1_decrypt_code_mut(addr, val), NoWord)

\* auto_decrypt_code_mut, scheme != V7 and code_lines != 0: a further line
\* of the code.
AutoContinue(e, addr, val) ==
    IF e.scheme = "RAW"
    THEN Ret(e.scheme, e.cb7, Sub1(e.code_lines), <<addr, val>>, NoWord, TRUE)
    ELSE AutoTail(e.scheme, e.cb7, Sub1(e.code_lines),
                  cb1_decrypt_code_mut(addr, val), NoWord)

\* Variant of AutoKeyed: only the first line of a code is decrypted.
AutoKeyed_first_only(e, addr, val) ==
    IF e.code_lines = 0
    THEN LET r == cb7_decrypt_code_mut(e.cb7, addr, val)
             n == num_code_lines(r.code[1])
         IN  IF n = 1 /\ r.code[1] = ALLONES
             THEN Ret("V7", r.cb7, Lines(0), r.code, r.code[1], TRUE)
             ELSE AutoTail("V7", r.cb7, Sub1(n), r.code, r.code[1])
    ELSE AutoTail("V7", e.cb7, Sub1(e.code_lines), <<addr, val>>, NoWord)

\* Variant of AutoKeyed: the unsupported FFFFFFFF line is skipped, that is
\* returned as it came in.
AutoKeyed_skip(e, addr, val) ==
    LET r == cb7_decrypt_code_mut(e.cb7, addr, val)
    IN  IF e.code_lines = 0
        THEN LET n == num_code_lines(r.code[1])
             IN  IF n = 1 /\ r.code[1] = ALLONES
                 THEN Ret("V7", r.cb7, Lines(0), <<addr, val>>, r.code[1], TRUE)
                 ELSE AutoTail("V7", r.cb7, Sub1(n), r.code, r.code[1])
        ELSE AutoTail("V7", r.cb7, Sub1(e.code_lines), r.code, NoWord)

\* Variant of AutoKeyed: a beefcode is looked for on the first line of a
\* code only.
AutoKeyed_tail_first(e, addr, val) ==
    LET r == cb7_decrypt_code_mut(e.cb7, addr, val)
    IN  IF e.code_lines = 0
        THEN LET n == num_code_lines(r.code[1])
             IN  IF n = 1 /\ r.code[1] = ALLONES
                 THEN Ret("V7", r.cb7, Lines(0), r.code, r.code[1], TRUE)
                 ELSE AutoTail("V7", r.cb7, Sub1(n), r.code, r.code[1])
        ELSE Ret("V7", r.cb7, Sub1(e.code_lines), r.code, NoWord, FALSE)

\* Variant of AutoKeyed: the first line of a code is not counted down.
AutoKeyed_nodec(e, addr, val) ==
    LET r == cb7_decrypt_code_mut(e.cb7, addr, val)
    IN  IF e.code_lines = 0
        THEN LET n == num_code_lines(r.code[1])
             IN  IF n = 1 /\ r.code[1] = ALLONES
                 THEN Ret("V7", r.cb7, Lines(0), r.code, r.code[1], TRUE)
                 ELSE AutoTail("V7", r.cb7, Lines(n), r.code, r.code[1])
        ELSE AutoTail("V7", r.cb7, Sub1(e.code_lines), r.code, NoWord)

\* Variant of AutoKeyed: the FFFFFFFF line returns without setting
\* code_lines back to 0.
AutoKeyed_noreset(e, addr, val) ==
    LET r == cb7_decrypt_code_mut(e.cb7, addr, val)
    IN  IF e.code_lines = 0
        THEN LET n == num_code_lines(r.code[1])
             IN  IF n = 1 /\ r.code[1] = ALLONES
                 THEN Ret("V7", r.cb7, Lines(n), r.code, r.code[1], TRUE)
                 ELSE AutoTail("V7", r.cb7, Sub1(n), r.code, r.code[1])
        ELSE AutoTail("V7", r.cb7, Sub1(e.code_lines), r.code, NoWord)

\* auto_decrypt_code_mut, scheme == V7.
AutoKeyed(e, addr, val) ==
    LET r == cb7_decrypt_code_mut(e.cb7, addr, val)
    IN  IF e.code_lines = 0
        THEN LET n == num_code_lines(r.code[1])
             IN  IF n = 1 /\ r.code[1] = ALLONES
                 THEN Ret("V7", r.cb7, Lines(0), r.code, r.code[1], TRUE)
                 ELSE AutoTail("V7", r.cb7, Sub1(n), r.code, r.code[1])
        ELSE AutoTail("V7", r.cb7, Sub1(e.code_lines), r.code, NoWord)

\* Variant of auto_decrypt_code_mut: a first line that does not look
\* encrypted is taken for a raw code whatever the scheme is.
auto_decrypt_code_mut_raw_first(e, addr, val) ==
    IF e.scheme # "V7" \/ (e.code_lines = 0 /\ EncNibble(addr) = 0)
    THEN IF e.code_lines = 0
         THEN AutoHeader(e, addr, val)
         ELSE AutoContinue(e, addr, val)
    ELSE AutoKeyed(e, addr, val)

\* pub fn auto_decrypt_code_mut(&mut self, addr: &mut u32, val: &mut u32)
auto_decrypt_code_mut(e, addr, val) ==
    IF e.scheme # "V7"
    THEN IF e.code_lines = 0
         THEN AutoHeader(e, addr, val)
         ELSE AutoContinue(e, addr, val)
    ELSE AutoKeyed(e, addr, val)

----------------------------------------------------------------------------
(* Sessions *)

\* The engine as a value.
Engine == [scheme |-> scheme, cb7 |-> cb7, code_lines |-> code_lines]

\* Plaintext codes the callers pass or expect: one-line and two-line
\* headers, with and without the bits auto-decrypt takes for encryption, the
\* two activation addresses and the all-ones address.
PlainAddrs ==
    { <<8259, 45004>>,      \* 2043AFCC  cmd 2, one line
      <<10903, 15805>>,     \* 2A973DBD  cmd 2, one line, bits 25-27 set
      <<12413, 16>>,        \* 307D0010  cmd 3, bit 22 set: two lines
      <<18944, 4096>>,      \* 4A001000  cmd 4, two lines, bits 25-27 set
      BEEFC0DE, BEEFC0DF, ALLONES }

\* Every address with a zero value, and one activation code with a seed.
Plain == (PlainAddrs \X {ZERO}) \cup { <<BEEFC0DE, <<9233, 65535>> >> }

\* The codes a call may be given: a plaintext, or its ciphertext under the
\* simple scheme or under the keyed scheme in the state st.
InputsOf(st) ==
    Plain
      \cup { cb1_encrypt_code_mut(c[1], c[2]) : c \in Plain }
      \cup { cb7_encrypt_code_mut(st, c[1], c[2]).code : c \in Plain }

\* The canonical activation code (B4336FA9 4DFEFB79 in the published lists):
\* BEEFC0DE 00000000 encrypted with the simple scheme.
Activation == cb1_encrypt_code_mut(BEEFC0DE, ZERO)

\* A call reads the key stream when the engine is in the keyed scheme.
CanCall(e) == e.scheme = "V7" => e.cb7.pos < MaxPos

Method(name, e, c) ==
    CASE name = "encrypt" -> encrypt_code_mut(e, c[1], c[2])
      [] name = "decrypt" -> decrypt_code_mut(e, c[1], c[2])
      [] name = "auto"    -> auto_decrypt_code_mut(e, c[1], c[2])

\* The plaintext address of a call: what encrypt was given, what the
\* decrypting calls returned.
PlainAddr(name, c, r) == IF name = "encrypt" THEN c[1] ELSE r.code[1]

\* One call of a method on the engine with the code c.
Call(name, c) ==
    LET r == Method(name, Engine, c)
    IN  /\ ~err
        /\ CanCall(Engine)
        /\ scheme' = r.scheme
        /\ cb7' = r.cb7
        /\ code_lines' = r.code_lines
        /\ op' = name
        /\ inp' = c
        /\ out' = r.code
        /\ prev' = Engine
        /\ counted' = r.counted
        /\ early' = r.early
        /\ err' = r.panic
        /\ only_decrypt' = (only_decrypt /\ name = "decrypt")
        /\ seen_beef' = (seen_beef \/ is_beefcode(PlainAddr(name, c, r)))
        /\ UNCHANGED <<mode, overflow_checks>>

InitEngine(m) ==
    /\ mode = m
    /\ overflow_checks \in BOOLEAN
    /\ scheme = Fresh(m).scheme
    /\ cb7 = Fresh(m).cb7
    /\ code_lines = Fresh(m).code_lines
    /\ op = "none"
    /\ inp = NoCode
    /\ out = NoCode
    /\ prev = Fresh(m)
    /\ counted = NoWord
    /\ early = FALSE
    /\ err = FALSE
    /\ only_decrypt = TRUE
    /\ seen_beef = FALSE
    /\ peer_out = NoCode

(* One engine, any call at any time. *)

Init ==
    /\ \E m \in {"cold", "warm"} : InitEngine(m) /\ peer = Fresh(m)
    /\ pc = "free"

Encrypt ==
    \E c \in InputsOf(cb7) : Call("encrypt", c) /\ UNCHANGED <<peer, peer_out, pc>>

Decrypt ==
    \E c \in InputsOf(cb7) : Call("decrypt", c) /\ UNCHANGED <<peer, peer_out, pc>>

AutoDecrypt ==
    \E c \in InputsOf(cb7) : Call("auto", c) /\ UNCHANGED <<peer, peer_out, pc>>

Next == Encrypt \/ Decrypt \/ AutoDecrypt

Spec == Init /\ [][Next]_vars

----------------------------------------------------------------------------
(* Two engines *)

PeerEngine(r) == [scheme |-> r.scheme, cb7 |-> r.cb7, code_lines |-> r.code_lines]

\* One call of a method on the second engine with the code c.
PeerCall(name, c) ==
    LET r == Method(name, peer, c)
    IN  /\ ~err
        /\ CanCall(peer)
        /\ peer' = PeerEngine(r)
        /\ peer_out' = r.code
        /\ err' = r.panic
        /\ UNCHANGED <<scheme, cb7, code_lines, mode, overflow_checks, op, inp,
                       out, prev, counted, early, only_decrypt, seen_beef>>

(* Round trip: the engine encrypts, a second engine created the same way  *)
(* decrypts what the first returned, line by line.                        *)

InitRT ==
    /\ \E m \in {"cold", "warm"} : InitEngine(m) /\ peer = Fresh(m)
    /\ pc = "enc0"

RTEncrypt ==
    /\ pc \in {"enc0", "rt1", "enc"}
    /\ \E c \in InputsOf(cb7) : Call("encrypt", c)
    /\ pc' = IF pc = "enc0" THEN "dec0" ELSE "dec"
    /\ UNCHANGED <<peer, peer_out>>

RTDecrypt ==
    /\ pc \in {"dec0", "dec"}
    /\ PeerCall("decrypt", out)
    /\ pc' = IF pc = "dec0" THEN "rt1" ELSE "enc"

NextRT == RTEncrypt \/ RTDecrypt

SpecRT == InitRT /\ [][NextRT]_vars

(* Cold and warm: a cold engine is given the canonical activation code and *)
(* then a code; a warm engine is given that code only.                     *)

InitCW ==
    /\ InitEngine("cold")
    /\ peer = new_v7
    /\ pc = "cw0"

CWActivate ==
    /\ pc = "cw0"
    /\ \E name \in {"decrypt", "auto"} : Call(name, Activation)
    /\ pc' = "cw1"
    /\ UNCHANGED <<peer, peer_out>>

CWCold ==
    /\ pc = "cw1"
    /\ \E c \in InputsOf(cb7) : Call(op, c)
    /\ pc' = "cw2"
    /\ UNCHANGED <<peer, peer_out>>

CWWarm ==
    /\ pc = "cw2"
    /\ PeerCall(op, inp)
    /\ pc' = "cw3"

NextCW == CWActivate \/ CWCold \/ CWWarm

SpecCW == InitCW /\ [][NextCW]_vars

(* num_code_lines on its own. *)

\* Every command, with bit 22 and with the other bits of the address clear
\* and set.
LCAddrs ==
    { <<(cmd * 4096) + rest, lo>> :
        cmd \in 0..15, rest \in {0, 64, 4031, 4095}, lo \in {0, 65535} }

InitLC ==
    /\ mode = "cold"
    /\ overflow_checks \in BOOLEAN
    /\ scheme = new.scheme
    /\ cb7 = new.cb7
    /\ code_lines = new.code_lines
    /\ op = "none"
    /\ \E a \in LCAddrs : inp = <<a, ZERO>>
    /\ out = NoCode
    /\ prev = new
    /\ counted = NoWord
    /\ early = FALSE
    /\ err = FALSE
    /\ only_decrypt = TRUE
    /\ seen_beef = FALSE
    /\ peer = new
    /\ peer_out = NoCode
    /\ pc = "lc0"

\* self.code_lines = num_code_lines(*addr)
CountLines ==
    /\ pc = "lc0"
    /\ code_lines' = num_code_lines(inp[1])
    /\ counted' = inp[1]
    /\ pc' = "lc1"
    /\ UNCHANGED <<scheme, cb7, mode, overflow_checks, op, inp, out, prev,
                   early, err, only_decrypt, seen_beef, peer, peer_out>>

NextLC == CountLines

SpecLC == InitLC /\ [][NextLC]_vars

----------------------------------------------------------------------------
(* Properties of a single engine, checked under Spec *)

\* The plaintext pair of the last call.
LastPlain == IF op = "encrypt" THEN inp ELSE out

\* C1: V7 is absorbing: once the scheme of the engine is V7, it is V7 after
\* every later encrypt, decrypt and auto_decrypt call, in a cold and in a
\* warm session.
C1_KeyedAbsorbing == [][scheme = "V7" => scheme' = "V7"]_vars

\* A cold engine that has switched to V7 and has then been called with
\* auto_decrypt on a first line that does not look encrypted.
C1_Witness ==
    /\ mode = "cold" /\ op = "auto" /\ prev.scheme = "V7" /\ scheme = "V7"
    /\ prev.code_lines = 0 /\ EncNibble(inp[1]) = 0

\* C3: In a cold session of decrypt calls only, a line is decrypted with the
\* inverse of the simple scheme as long as no earlier line decrypted to a
\* beefcode; the first line that decrypts to a beefcode is itself decrypted
\* with the simple scheme, reseeds the cipher from its decrypted code and
\* switches to V7; every later line is decrypted with the keyed cipher.
C3_ColdDecrypt ==
    [][ (mode = "cold" /\ only_decrypt' /\ op' = "decrypt") =>
          IF ~seen_beef
          THEN /\ out' = cb1_decrypt_code_mut(inp'[1], inp'[2])
               /\ IF is_beefcode(out'[1])
                  THEN cb7' = beefcode(cb7, out'[1], out'[2]) /\ scheme' = "V7"
                  ELSE cb7' = cb7 /\ scheme' # "V7"
          ELSE /\ scheme = "V7"
               /\ out' = cb7_decrypt_code_mut(cb7, inp'[1], inp'[2]).code
      ]_vars

\* A cold decrypt-only session that has decrypted its activation line with
\* the simple scheme.
C3_Witness ==
    /\ mode = "cold" /\ only_decrypt /\ op = "decrypt"
    /\ prev.scheme # "V7" /\ is_beefcode(out[1]) /\ scheme = "V7"
    /\ inp = Activation

\* C4: encrypt of a code whose address, as passed in, is a beefcode, on an
\* engine that is not in V7, returns the simple-scheme ciphertext of the
\* code, leaves the cipher reseeded from the code as passed in and the scheme
\* V7; an encrypt call on an engine in V7 uses the keyed cipher.
C4_EncryptActivation ==
    /\ (op = "encrypt" /\ prev.scheme # "V7" /\ is_beefcode(inp[1])) =>
          /\ out = cb1_encrypt_code_mut(inp[1], inp[2])
          /\ cb7 = beefcode(prev.cb7, inp[1], inp[2])
          /\ scheme = "V7"
    /\ (op = "encrypt" /\ prev.scheme = "V7") =>
          out = cb7_encrypt_code_mut(prev.cb7, inp[1], inp[2]).code

\* An engine not in V7 has encrypted an activation code that carries a seed.
C4_Witness ==
    /\ op = "encrypt" /\ prev.scheme # "V7" /\ is_beefcode(inp[1])
    /\ inp[2] # ZERO /\ scheme = "V7"

\* C5: auto_decrypt on an engine that is not in V7, with code_lines = 0, on
\* a code whose address is not a beefcode: the lines are counted on the
\* address as passed in; when (addr >> 24) & 0x0E is 0 the code is returned
\* unchanged and the scheme is RAW; otherwise the code returned is the
\* simple-scheme decryption and the scheme is V1, or V7 when the decrypted
\* address is a beefcode.
C5_AutoHeader ==
    (op = "auto" /\ prev.scheme # "V7" /\ prev.code_lines = 0
        /\ ~is_beefcode(inp[1])) =>
       /\ counted = inp[1]
       /\ IF ((inp[1][1] \div 512) % 8) = 0
          THEN /\ out = inp
               /\ scheme = "RAW"
               /\ code_lines = num_code_lines(inp[1]) - 1
          ELSE /\ out = cb1_decrypt_code_mut(inp[1], inp[2])
               /\ IF is_beefcode(out[1])
                  THEN scheme = "V7" /\ code_lines = 1
                  ELSE scheme = "V1" /\ code_lines = num_code_lines(inp[1]) - 1

\* A first line of an encrypted code whose ciphertext counts one line and
\* whose plaintext would count two.
C5_Witness ==
    /\ op = "auto" /\ prev.scheme # "V7" /\ prev.code_lines = 0
    /\ ~is_beefcode(inp[1]) /\ scheme = "V1"
    /\ num_code_lines(inp[1]) # num_code_lines(out[1])

\* The last call was an auto_decrypt that left a non-V7 engine by one of
\* its two early returns: a beefcode passed in unencrypted as a first line,
\* or a further line of a raw code.
AutoPassedThrough ==
    /\ op = "auto" /\ prev.scheme # "V7"
    /\ \/ prev.code_lines = 0 /\ is_beefcode(inp[1])
       \/ prev.code_lines # 0 /\ prev.scheme = "RAW"

\* C8, as stated: whenever a call processes a line whose plaintext address
\* (the address passed to encrypt, the address returned by decrypt and by
\* auto_decrypt) is a beefcode, the cipher has been reseeded from that
\* plaintext code and the scheme is V7 when the call returns.
C8_Original ==
    (op # "none" /\ is_beefcode(LastPlain[1])) =>
       /\ scheme = "V7"
       /\ cb7 = beefcode(prev.cb7, LastPlain[1], LastPlain[2])

\* C8, amended: the same, except for an auto_decrypt call that returns the
\* code untouched on an engine that is not in V7 (a beefcode passed in
\* unencrypted as a first line, or a further line of a raw code); such a
\* call leaves the scheme and the cipher as they were.
C8_Activation ==
    (op # "none" /\ is_beefcode(LastPlain[1])) =>
       IF AutoPassedThrough
       THEN scheme = prev.scheme /\ cb7 = prev.cb7 /\ out = inp
       ELSE /\ scheme = "V7"
            /\ cb7 = beefcode(prev.cb7, LastPlain[1], LastPlain[2])

\* auto_decrypt has decrypted a line of a V1 code to a beefcode that carries
\* a seed.
C8_Witness ==
    /\ op = "auto" /\ prev.scheme = "V1" /\ is_beefcode(out[1])
    /\ out[2] # ZERO /\ scheme = "V7"

\* C9, as stated: once the scheme is V1, no later call sets it back to RAW.
C9_Original == [][scheme = "V1" => scheme' # "RAW"]_vars

\* C9, amended: once the scheme is V1, the only call that sets it back to
\* RAW is an auto_decrypt at the first line of a code (code_lines = 0) whose
\* address has (addr >> 24) & 0x0E = 0; encrypt, decrypt and auto_decrypt on
\* a further line never do.
C9_SimpleToRaw ==
    [][ (scheme = "V1" /\ scheme' = "RAW") =>
           /\ op' = "auto"
           /\ code_lines = 0
           /\ ((inp'[1][1] \div 512) % 8) = 0
      ]_vars

\* auto_decrypt on an engine in V1 has taken a first line that does not look
\* encrypted for a raw code.
C9_Witness ==
    /\ op = "auto" /\ prev.scheme = "V1" /\ prev.code_lines = 0
    /\ ((inp[1][1] \div 512) % 8) = 0 /\ scheme = "RAW"

\* C10: code_lines never underflows and no call fails: every decrement of
\* code_lines is applied to a value of at least 1, so the counter stays
\* non-negative and no call panics, in either build.
C10_NoUnderflow == ~err /\ code_lines >= 0

\* auto_decrypt has consumed the second line of a two-line code.
C10_Witness ==
    /\ op = "auto" /\ prev.code_lines = 1 /\ code_lines = 0 /\ ~early

----------------------------------------------------------------------------
(* Properties of two engines and of num_code_lines *)

\* C2: round trip: for every code and for each way of creating an engine
\* (cold, warm), encrypting the code on a newly created engine and decrypting
\* the result on a newly created engine of the same kind returns the code.
C2_RoundTrip == pc = "rt1" => peer_out = inp

\* A warm engine has encrypted an activation code that carries a seed and a
\* second warm engine has decrypted the result.
C2_Witness ==
    /\ pc = "rt1" /\ mode = "warm" /\ prev = new_v7
    /\ is_beefcode(inp[1]) /\ inp[2] # ZERO /\ out # inp

\* C6: a cold engine given the canonical activation code and then a code
\* returns, for that code, what a warm engine given only that code returns,
\* with decrypt and with auto_decrypt, provided the cipher state the warm
\* engine starts with is the state the cold engine has after the activation
\* code.
C6_ColdWarm ==
    (pc = "cw3" /\ new_v7.cb7 = prev.cb7) => peer_out = out

\* Both engines have been through auto_decrypt; the cold one took the code
\* for a further line (code_lines = 1), the warm one for a first line.
C6_Witness ==
    /\ pc = "cw3" /\ op = "auto" /\ new_v7.cb7 = prev.cb7
    /\ prev.scheme = "V7" /\ prev.code_lines = 1
    /\ inp # Activation /\ peer_out = out /\ out # inp

\* The lines of commands 0 to 15 by the claim's table, command 3 with bit
\* 0x00400000 clear.
C7_Table == <<1, 1, 1, 1, 2, 2, 2, 1, 1, 1, 1, 1, 1, 1, 1, 1>>

\* C7: num_code_lines returns 1 or 2 for every address and depends only on
\* cmd = addr >> 28 and, when cmd is 3, on bit 0x00400000: 1 when cmd < 3 or
\* cmd > 6; for cmd 3, 2 when the bit is set and 1 otherwise; 2 for cmd 4, 5
\* and 6.
C7_LineCount ==
    pc = "lc1" =>
       LET cmd == counted[1] \div 4096
           bit == (counted[1] \div 64) % 2
       IN  /\ code_lines \in {1, 2}
           /\ code_lines = C7_Table[cmd + 1] + (IF cmd = 3 THEN bit ELSE 0)
           /\ \A a \in LCAddrs :
                 (a[1] \div 4096 = cmd /\ (cmd = 3 => (a[1] \div 64) % 2 = bit))
                    => num_code_lines(a) = code_lines

\* The lines of a command-3 address with bit 22 and every other bit set.
C7_Witness ==
    /\ pc = "lc1" /\ counted = <<(3 * 4096) + 4095, 65535>> /\ code_lines = 2

----------------------------------------------------------------------------
(* Branches of auto_decrypt_code_mut, checked under Spec *)

\* C11: auto_decrypt on an engine that is not in V7, with code_lines = 0, on
\* a code whose address as passed in is a beefcode returns the code
\* unchanged, leaves the scheme and the cipher state as they were (no
\* reseed, no switch to V7) and leaves code_lines at 0.
C11_InertRawMarker ==
    (op = "auto" /\ prev.scheme # "V7" /\ prev.code_lines = 0
        /\ is_beefcode(inp[1])) =>
       /\ out = inp
       /\ scheme = prev.scheme
       /\ cb7 = prev.cb7
       /\ code_lines = 0
       /\ ~err

\* An engine in V1 has been given an unencrypted beefcode that carries a
\* seed as the first line of a code.
C11_Witness ==
    /\ op = "auto" /\ prev.scheme = "V1" /\ prev.code_lines = 0
    /\ is_beefcode(inp[1]) /\ inp[2] # ZERO /\ scheme = "V1"

\* C12: after every auto_decrypt call that did not return early and whose
\* returned address is a beefcode, the cipher state is beefcode applied to
\* the returned code, the scheme is V7 and code_lines is 1, whatever the
\* counter and the scheme were before (also on an engine already in V7 and
\* in the middle of a code).
C12_CommonTail ==
    (op = "auto" /\ ~AutoPassedThrough /\ is_beefcode(out[1])) =>
       /\ cb7 = beefcode(prev.cb7, out[1], out[2])
       /\ cb7.seed = out /\ cb7.pos = 0
       /\ scheme = "V7"
       /\ code_lines = 1

\* An engine in V7 at the first line of a code has decrypted a one-line
\* beefcode: the counter would be 0 and is 1.
C12_Witness ==
    /\ op = "auto" /\ prev.scheme = "V7" /\ prev.code_lines = 0
    /\ is_beefcode(out[1]) /\ num_code_lines(out[1]) = 1
    /\ code_lines = 1 /\ cb7.seed = out

\* C13: when auto_decrypt on an engine in V7 with code_lines = 0 decrypts a
\* line to the address FFFFFFFF, it returns the code as decrypted by the
\* keyed cipher, code_lines is 0 afterwards, the scheme stays V7, the cipher
\* is not reseeded and no error is raised.
C13_RekeyRequest ==
    (op = "auto" /\ prev.scheme = "V7" /\ prev.code_lines = 0
        /\ cb7_decrypt_code_mut(prev.cb7, inp[1], inp[2]).code[1] = <<65535, 65535>>) =>
       /\ out = cb7_decrypt_code_mut(prev.cb7, inp[1], inp[2]).code
       /\ code_lines = 0
       /\ scheme = "V7"
       /\ cb7 = cb7_decrypt_code_mut(prev.cb7, inp[1], inp[2]).cb7
       /\ cb7.seed = prev.cb7.seed
       /\ ~err

\* An engine in V7 at the first line of a code has decrypted a line to
\* FFFFFFFF.
C13_Witness ==
    /\ op = "auto" /\ prev.scheme = "V7" /\ prev.code_lines = 0
    /\ out[1] = <<65535, 65535>> /\ out # inp /\ early


\* The engine is not in V7 and its last call was an auto_decrypt that took
\* its line for the first of a two-line code.
AfterTwoLineHeader ==
    /\ op = "auto" /\ scheme # "V7" /\ prev.scheme # "V7"
    /\ prev.code_lines = 0 /\ counted = inp[1]
    /\ C7_Table[(inp[1][1] \div 4096) + 1]
          + (IF inp[1][1] \div 4096 = 3 THEN (inp[1][1] \div 64) % 2 ELSE 0) = 2

\* C14: after a first line that counts two lines, on an engine that is not
\* in V7, the very next auto_decrypt call takes its code for the second
\* line: it counts no lines and infers no scheme; under RAW it returns the
\* code unchanged and does not switch to V7 even when the address is a
\* beefcode; under V1 it returns the simple-scheme decryption; code_lines is
\* 0 afterwards, unless the address decrypted under V1 is a beefcode.
C14_Continuation ==
    [][ (AfterTwoLineHeader /\ op' = "auto") =>
           /\ code_lines = 1
           /\ counted' = NoWord
           /\ IF scheme = "RAW"
              THEN /\ out' = inp'
                   /\ scheme' = "RAW"
                   /\ cb7' = cb7
                   /\ code_lines' = 0
              ELSE /\ out' = cb1_decrypt_code_mut(inp'[1], inp'[2])
                   /\ IF is_beefcode(out'[1])
                      THEN scheme' = "V7" /\ code_lines' = 1
                      ELSE scheme' = "V1" /\ cb7' = cb7 /\ code_lines' = 0
      ]_vars

\* The second line of a raw two-line code was a beefcode and has been
\* passed through.
C14_Witness ==
    /\ op = "auto" /\ prev.scheme = "RAW" /\ prev.code_lines = 1
    /\ is_beefcode(inp[1]) /\ out = inp /\ scheme = "RAW" /\ code_lines = 0


\* The plaintext pair of the call a step makes.
NextPlain == IF op' = "encrypt" THEN inp' ELSE out'

\* C15: while the scheme is not V7, no encrypt, decrypt or auto_decrypt call
\* changes the cipher state, except a call that detects a beefcode, after
\* which the scheme is V7 and the state is beefcode applied to the
\* activation code; in every state the cipher state changes only through a
\* transform of the keyed cipher or through beefcode.
C15_CipherFrame ==
    [][ /\ scheme # "V7" =>
              \/ cb7' = cb7
              \/ /\ is_beefcode(NextPlain[1])
                 /\ scheme' = "V7"
                 /\ cb7' = beefcode(cb7, NextPlain[1], NextPlain[2])
        /\ scheme = "V7" =>
              \/ cb7' = cb7
              \/ /\ op' = "encrypt"
                 /\ cb7' = cb7_encrypt_code_mut(cb7, inp'[1], inp'[2]).cb7
              \/ /\ op' \in {"decrypt", "auto"}
                 /\ cb7' = cb7_decrypt_code_mut(cb7, inp'[1], inp'[2]).cb7
              \/ /\ is_beefcode(NextPlain[1])
                 /\ cb7' = beefcode(cb7, NextPlain[1], NextPlain[2])
      ]_vars

\* A cold engine has been through a call that left its scheme and its
\* unseeded cipher alone, on a line that looked encrypted.
C15_Witness ==
    /\ op = "auto" /\ prev.scheme # "V7" /\ scheme = "V1"
    /\ cb7 = prev.cb7 /\ cb7 = Cb7New /\ out # inp


\* C17: on an engine in V7, auto_decrypt does what decrypt does: for every
\* code and every value of code_lines both return the same code and leave
\* the same scheme and the same cipher state, and code_lines has no
\* influence on the code an engine in V7 returns.
C17_AutoIsDecrypt ==
    (op = "auto" /\ prev.scheme = "V7") =>
       LET d == decrypt_code_mut(prev, inp[1], inp[2])
       IN  /\ out = d.code
           /\ scheme = d.scheme
           /\ cb7 = d.cb7
           /\ \A n \in 0..2 :
                 auto_decrypt_code_mut([prev EXCEPT !.code_lines = n],
                                       inp[1], inp[2]).code = out

\* An engine in V7 in the middle of a code has decrypted a line to a
\* beefcode that carries a seed.
C17_Witness ==
    /\ op = "auto" /\ prev.scheme = "V7" /\ prev.code_lines = 1
    /\ is_beefcode(out[1]) /\ out[2] # ZERO /\ cb7.seed = out

\* C18: between calls code_lines is 0 or 1, in every state a cold or a warm
\* engine reaches by encrypt, decrypt and auto_decrypt calls.
C18_ZeroOrOne == code_lines \in {0, 1}

\* An engine in V7 has taken the first line of a two-line code.
C18_Witness ==
    /\ op = "auto" /\ prev.scheme = "V7" /\ prev.code_lines = 0
    /\ counted = out[1] /\ num_code_lines(out[1]) = 2 /\ code_lines = 1

\* C19: encrypt and decrypt leave code_lines unchanged and never set the
\* scheme to RAW or V1: all they change is the cipher state and, on a
\* beefcode, the scheme to V7; a call made in the middle of a code does not
\* move the line counter of auto_decrypt.
C19_ExplicitFrame ==
    (op \in {"encrypt", "decrypt"}) =>
       /\ code_lines = prev.code_lines
       /\ \/ scheme = prev.scheme
          \/ scheme = "V7" /\ is_beefcode(LastPlain[1])
       /\ counted = NoWord

\* decrypt has decrypted a beefcode on an engine that auto_decrypt had left
\* in the middle of a two-line V1 code; the counter is still 1.
C19_Witness ==
    /\ op = "decrypt" /\ prev.scheme = "V1" /\ prev.code_lines = 1
    /\ is_beefcode(out[1]) /\ scheme = "V7" /\ code_lines = 1

\* auto_decrypt_code_mut in V7 without the FFFFFFFF case of lines 250-254.
C20_NoSpecialCase(e, addr, val) ==
    LET r == cb7_decrypt_code_mut(e.cb7, addr, val)
    IN  IF e.code_lines = 0
        THEN AutoTail("V7", r.cb7, Sub1(num_code_lines(r.code[1])), r.code,
                      r.code[1])
        ELSE AutoTail("V7", r.cb7, Sub1(e.code_lines), r.code, NoWord)

\* C20: the FFFFFFFF case of the V7 branch of auto_decrypt changes nothing
\* that can be observed: for every engine in V7 and every code, the code
\* returned and the engine after the call (scheme, cipher state, code_lines)
\* are those of the same call without the case.
C20_SpecialCaseNoOp ==
    (op = "auto" /\ prev.scheme = "V7") =>
       LET r == C20_NoSpecialCase(prev, inp[1], inp[2])
       IN  /\ out = r.code
           /\ scheme = r.scheme
           /\ cb7 = r.cb7
           /\ code_lines = r.code_lines
           /\ err = r.panic

\* An engine in V7 has left auto_decrypt through the FFFFFFFF case.
C20_Witness ==
    /\ op = "auto" /\ prev.scheme = "V7" /\ prev.code_lines = 0 /\ early
    /\ out[1] = ALLONES /\ code_lines = 0 /\ cb7.pos = prev.cb7.pos + 1

----------------------------------------------------------------------------
(* Sequences of calls on two engines *)

\* C16: for every sequence of plaintext codes, when one engine encrypts the
\* sequence and a second engine created the same way decrypts what the first
\* returned, in the same order, the second returns the original code at
\* every step and both engines have the same scheme and the same cipher
\* state after every step, activation lines included.
C16_Lockstep ==
    pc \in {"rt1", "enc"} =>
       /\ peer_out = inp
       /\ peer.scheme = scheme
       /\ peer.cb7 = cb7

\* A cold pair of engines has gone through an activation line and then
\* through a line under the keyed cipher.
C16_Witness ==
    /\ pc = "enc" /\ mode = "cold" /\ prev.scheme = "V7" /\ prev.cb7.pos = 0
    /\ prev.cb7.seed[2] # ZERO /\ peer_out = inp /\ out # inp /\ cb7.pos = 1

====
